---- MODULE Spec2Model ----
(***************************************************************************)
(* The four plotting scripts of the repository (src/scripts/*.py) as       *)
(* processes that execute their statements top to bottom.  Each script    *)
(* owns a Python environment (env), a matplotlib figure (fig), a program   *)
(* counter (pc) and the list of events of its run (hist); all scripts      *)
(* share the file system (fs) below docs/images/.                          *)
(*                                                                         *)
(* Numbers.  Grid coordinates are exact rationals kept as numerators over  *)
(* the common denominator N-1 (np.ogrid with a complex step is             *)
(* start + k*(stop-start)/(N-1)).  Marker values are fixed-point numbers   *)
(* in thousandths; np.sqrt rounds to the nearest representable value and   *)
(* yields NaN on a negative argument.                                      *)
(***************************************************************************)
EXTENDS Integers, Sequences, FiniteSets, TLC

VARIABLES cfg, pc, env, fig, hist, fs

vars == <<cfg, pc, env, fig, hist, fs>>

----------------------------------------------------------------------------
(* Script names and model bounds *)

C2E == "cubic-to-elliptic-curve"

GRID == "plot-elliptic-curve-grid"

BOTH == "plot-elliptic-curve"

PADD == "point-addition"

Scripts == {C2E, GRID, BOTH, PADD}

\* scripts that read the module-level constants a and b (lines 4-5)
CoefScripts == {C2E, BOTH, PADD}

\* how many scripts may run at the same time in SpecPar
MaxPar == 2

\* range of the coefficients a and b tried in SpecAny
MaxCoef == 2

\* samples per axis: the 100j of np.ogrid
N == 100

\* fixed-point scale of marker values (thousandths)
M == 10 ^ 3

----------------------------------------------------------------------------
(* Arithmetic helpers *)

Abs(v) == IF v < 0 THEN -v ELSE v

Sg(v) == IF v < 0 THEN -1 ELSE IF v > 0 THEN 1 ELSE 0

\* ceil(p / q) for q > 0
CeilDiv(p, q) == IF p <= 0 THEN 0 ELSE ((p - 1) \div q) + 1

RECURSIVE SqrtSearch(_, _, _)
\* largest f in lo..hi with f*f <= v (lo*lo <= v < (hi+1)*(hi+1))
SqrtSearch(v, lo, hi) ==
  IF lo >= hi THEN lo
  ELSE LET mid == (lo + hi + 1) \div 2
       IN IF mid * mid <= v THEN SqrtSearch(v, mid, hi)
                            ELSE SqrtSearch(v, lo, mid - 1)

\* the integer nearest to sqrt(v), v >= 0
ISqrt(v) ==
  LET f == SqrtSearch(v, 0, 40000)
  IN IF v - f * f > f THEN f + 1 ELSE f

\* a floating-point value: NaN, or v thousandths
Num(v) == [nan |-> FALSE, v |-> v]

NaN == [nan |-> TRUE, v |-> 0]

\* unary minus: -NaN is NaN
Neg(f) == IF f.nan THEN NaN ELSE Num(-f.v)

\* numpy's default error state for an invalid operation: a RuntimeWarning,
\* not an exception (no script calls np.seterr or turns warnings into errors)
np_errstate_invalid == "warn"

\* np.sqrt of r thousandths
np_sqrt(r) == IF r < 0 THEN NaN ELSE Num(ISqrt(r * M))

\* linspace with the step computed by integer division
linspace_intdiv(lo, hi, n, k) == (lo + k * ((hi - lo) \div (n - 1))) * (n - 1)

\* np.linspace(lo, hi, n)[k], k = 0..n-1, as a numerator over n-1
linspace(lo, hi, n, k) == lo * (n - 1) + k * (hi - lo)

\* arange with one sample too many
arange_overrun(start, stop, step) ==
  [k \in 1..(CeilDiv(stop - start, step) + 1) |-> start + (k - 1) * step]

\* np.arange(start, stop, step), all three in tenths, as a sequence of tenths
arange(start, stop, step) ==
  [k \in 1..CeilDiv(stop - start, step) |-> start + (k - 1) * step]

\* x**3 + a*x + b in thousandths, x in tenths, a and b integers
Radicand(x, a, b) == x * x * x + a * x * 100 + b * M

\* f'{v:.0f}' of the float num/den: round half to even, then print
Fmt0f(num, den) ==
  LET q == num \div den
      r == num - q * den
      n == IF 2 * r > den THEN q + 1
           ELSE IF 2 * r < den THEN q
           ELSE IF q % 2 = 0 THEN q ELSE q + 1
  IN ToString(n)

----------------------------------------------------------------------------
(* The scripts' statements, in source order.  "l" is the source line. *)

\* the literals a and b at the top of a script (lines 4-5)
Literals(s) ==
  IF s = PADD THEN [a |-> -2, b |-> 2] ELSE [a |-> 0, b |-> 7]

cubic_to_elliptic_curve ==
  << [op |-> "consts", l |-> 4, x_max |-> 4, y_max |-> 15],
     [op |-> "subplots", l |-> 12, axes |-> {"ax1"}],
     [op |-> "ogrid", l |-> 14],
     [op |-> "surface", l |-> 16, var |-> "cubic_curve", sy |-> -1, py |-> 1, s3 |-> 1],
     [op |-> "surface", l |-> 17, var |-> "cubic_curve_neg", sy |-> 1, py |-> 1, s3 |-> 1],
     [op |-> "contour", l |-> 19, ax |-> "ax1", var |-> "cubic_curve"],
     [op |-> "contour", l |-> 20, ax |-> "ax1", var |-> "cubic_curve_neg"],
     [op |-> "eq_title", l |-> 23, lhs |-> "y = x^3 ", aPre |-> "- ", bPre |-> "- "],
     [op |-> "set_title", l |-> 26, ax |-> "ax1", lit |-> ""],
     [op |-> "surface", l |-> 28, var |-> "elliptic_curve", sy |-> 1, py |-> 2, s3 |-> -1],
     [op |-> "contour", l |-> 30, ax |-> "ax1", var |-> "elliptic_curve"],
     [op |-> "x_points", l |-> 33, start |-> -16, stop |-> 20, step |-> 5],
     [op |-> "points", l |-> 35, var |-> "cubic_curve_points", sign |-> 1, sqrt |-> FALSE],
     [op |-> "points", l |-> 36, var |-> "cubic_curve_neg_points", sign |-> -1, sqrt |-> FALSE],
     [op |-> "points", l |-> 37, var |-> "elliptic_curve_points", sign |-> 1, sqrt |-> TRUE],
     [op |-> "annotate_loop", l |-> 40],
     [op |-> "set_label", l |-> 46, ax |-> "ax1", which |-> "xlabel", text |-> "x"],
     [op |-> "set_label", l |-> 47, ax |-> "ax1", which |-> "ylabel", text |-> "y"],
     [op |-> "decorate", l |-> 48, ax |-> "ax1", what |-> "set_ylim"],
     [op |-> "decorate", l |-> 49, ax |-> "ax1", what |-> "axhline"],
     [op |-> "decorate", l |-> 50, ax |-> "ax1", what |-> "axvline"],
     [op |-> "decorate", l |-> 51, ax |-> "ax1", what |-> "grid"],
     [op |-> "eq_title", l |-> 54, lhs |-> "y^2 = x^3 ", aPre |-> " ", bPre |-> "- "],
     [op |-> "set_title", l |-> 57, ax |-> "ax1", lit |-> ""],
     [op |-> "tight_layout", l |-> 61],
     [op |-> "savefig", l |-> 65, path |-> "docs/images/cubic-to-elliptic.png"],
     [op |-> "savefig", l |-> 66, path |-> "docs/images/cubic-to-elliptic.svg"],
     [op |-> "show", l |-> 69] >>

plot_elliptic_curve_grid ==
  << [op |-> "consts", l |-> 5, x_max |-> 5, y_max |-> 5],
     [op |-> "subplots", l |-> 13, axes |-> (0..3) \X (0..3)],
     [op |-> "label_loop", l |-> 16],
     [op |-> "plot_loop", l |-> 24],
     [op |-> "tight_layout", l |-> 32],
     [op |-> "savefig", l |-> 35, path |-> "docs/images/elliptic_curves_grid.png"],
     [op |-> "savefig", l |-> 36, path |-> "docs/images/elliptic_curves_grid.svg"],
     [op |-> "show", l |-> 39] >>

plot_elliptic_curve ==
  << [op |-> "consts", l |-> 4, x_max |-> 9, y_max |-> 15],
     [op |-> "subplots", l |-> 12, axes |-> {"ax1", "ax2"}],
     [op |-> "ogrid", l |-> 15],
     [op |-> "surface", l |-> 17, var |-> "cubic_curve", sy |-> 1, py |-> 1, s3 |-> -1],
     [op |-> "surface", l |-> 18, var |-> "cubic_curve_neg", sy |-> -1, py |-> 1, s3 |-> -1],
     [op |-> "contour", l |-> 20, ax |-> "ax1", var |-> "cubic_curve"],
     [op |-> "contour", l |-> 21, ax |-> "ax1", var |-> "cubic_curve_neg"],
     [op |-> "set_label", l |-> 23, ax |-> "ax1", which |-> "xlabel", text |-> "x"],
     [op |-> "set_label", l |-> 24, ax |-> "ax1", which |-> "ylabel", text |-> "y"],
     [op |-> "decorate", l |-> 25, ax |-> "ax1", what |-> "axhline"],
     [op |-> "decorate", l |-> 26, ax |-> "ax1", what |-> "axvline"],
     [op |-> "decorate", l |-> 27, ax |-> "ax1", what |-> "grid"],
     [op |-> "eq_title", l |-> 30, lhs |-> "y = x^3 ", aPre |-> "- ", bPre |-> "- "],
     [op |-> "set_title", l |-> 33, ax |-> "ax1", lit |-> ""],
     [op |-> "surface", l |-> 35, var |-> "elliptic_curve", sy |-> 1, py |-> 2, s3 |-> -1],
     [op |-> "contour", l |-> 37, ax |-> "ax2", var |-> "elliptic_curve"],
     [op |-> "set_label", l |-> 39, ax |-> "ax2", which |-> "xlabel", text |-> "x"],
     [op |-> "set_label", l |-> 40, ax |-> "ax2", which |-> "ylabel", text |-> "y"],
     [op |-> "decorate", l |-> 41, ax |-> "ax2", what |-> "axhline"],
     [op |-> "decorate", l |-> 42, ax |-> "ax2", what |-> "axvline"],
     [op |-> "decorate", l |-> 43, ax |-> "ax2", what |-> "grid"],
     [op |-> "eq_title", l |-> 46, lhs |-> "y^2 = x^3 ", aPre |-> "- ", bPre |-> "- "],
     [op |-> "set_title", l |-> 49, ax |-> "ax2", lit |-> ""],
     [op |-> "tight_layout", l |-> 53],
     [op |-> "savefig", l |-> 57, path |-> "docs/images/both_curves.png"],
     [op |-> "savefig", l |-> 58, path |-> "docs/images/both_curves.svg"],
     [op |-> "show", l |-> 61] >>

\* point-addition with its two savefig lines (48-49) uncommented
point_addition_saving ==
  << [op |-> "consts", l |-> 4, x_max |-> 3, y_max |-> 5],
     [op |-> "subplots", l |-> 12, axes |-> {"ax1"}],
     [op |-> "ogrid", l |-> 14],
     [op |-> "set_title", l |-> 17, ax |-> "ax1", lit |-> "Point addition"],
     [op |-> "surface", l |-> 19, var |-> "elliptic_curve", sy |-> 1, py |-> 2, s3 |-> -1],
     [op |-> "contour", l |-> 21, ax |-> "ax1", var |-> "elliptic_curve"],
     [op |-> "set_label", l |-> 22, ax |-> "ax1", which |-> "xlabel", text |-> "x"],
     [op |-> "set_label", l |-> 23, ax |-> "ax1", which |-> "ylabel", text |-> "y"],
     [op |-> "decorate", l |-> 24, ax |-> "ax1", what |-> "set_ylim"],
     [op |-> "decorate", l |-> 25, ax |-> "ax1", what |-> "axhline"],
     [op |-> "decorate", l |-> 26, ax |-> "ax1", what |-> "axvline"],
     [op |-> "decorate", l |-> 27, ax |-> "ax1", what |-> "grid"],
     [op |-> "point", l |-> 31, var |-> "P", x |-> -10],
     [op |-> "point", l |-> 32, var |-> "Q", x |-> 20],
     [op |-> "plot_point", l |-> 35, ax |-> "ax1", var |-> "P"],
     [op |-> "plot_point", l |-> 36, ax |-> "ax1", var |-> "Q"],
     [op |-> "plot_line", l |-> 39, ax |-> "ax1", from |-> "P", to |-> "Q"],
     [op |-> "decorate", l |-> 41, ax |-> "ax1", what |-> "legend"],
     [op |-> "tight_layout", l |-> 44],
     [op |-> "savefig", l |-> 48, path |-> "docs/images/cubic-to-elliptic.png"],
     [op |-> "savefig", l |-> 49, path |-> "docs/images/cubic-to-elliptic.svg"],
     [op |-> "show", l |-> 52] >>

\* lines 48-49 (the two savefig calls) are commented out in the source
point_addition ==
  << [op |-> "consts", l |-> 4, x_max |-> 3, y_max |-> 5],
     [op |-> "subplots", l |-> 12, axes |-> {"ax1"}],
     [op |-> "ogrid", l |-> 14],
     [op |-> "set_title", l |-> 17, ax |-> "ax1", lit |-> "Point addition"],
     [op |-> "surface", l |-> 19, var |-> "elliptic_curve", sy |-> 1, py |-> 2, s3 |-> -1],
     [op |-> "contour", l |-> 21, ax |-> "ax1", var |-> "elliptic_curve"],
     [op |-> "set_label", l |-> 22, ax |-> "ax1", which |-> "xlabel", text |-> "x"],
     [op |-> "set_label", l |-> 23, ax |-> "ax1", which |-> "ylabel", text |-> "y"],
     [op |-> "decorate", l |-> 24, ax |-> "ax1", what |-> "set_ylim"],
     [op |-> "decorate", l |-> 25, ax |-> "ax1", what |-> "axhline"],
     [op |-> "decorate", l |-> 26, ax |-> "ax1", what |-> "axvline"],
     [op |-> "decorate", l |-> 27, ax |-> "ax1", what |-> "grid"],
     [op |-> "point", l |-> 31, var |-> "P", x |-> -10],
     [op |-> "point", l |-> 32, var |-> "Q", x |-> 20],
     [op |-> "plot_point", l |-> 35, ax |-> "ax1", var |-> "P"],
     [op |-> "plot_point", l |-> 36, ax |-> "ax1", var |-> "Q"],
     [op |-> "plot_line", l |-> 39, ax |-> "ax1", from |-> "P", to |-> "Q"],
     [op |-> "decorate", l |-> 41, ax |-> "ax1", what |-> "legend"],
     [op |-> "tight_layout", l |-> 44],
     [op |-> "show", l |-> 52] >>

Program(s) ==
  CASE s = C2E -> cubic_to_elliptic_curve
    [] s = GRID -> plot_elliptic_curve_grid
    [] s = BOTH -> plot_elliptic_curve
    [] s = PADD -> point_addition

\* pc = 0: not started; 1..Len: about to execute that statement;
\* Len+1: exited normally; -1: terminated by an unhandled exception
Running(s) == pc[s] >= 1 /\ pc[s] <= Len(Program(s))

Exited(s) == pc[s] = Len(Program(s)) + 1

Crashed(s) == pc[s] = -1

Stmt(s) == Program(s)[pc[s]]

At(s, o) == Running(s) /\ Stmt(s).op = o

----------------------------------------------------------------------------
(* Environment, figure and file system *)

\* the Python variables of a script before its first statement
NoEnv ==
  [a |-> 0, b |-> 0, cD |-> 1, x_max |-> 0, y_max |-> 0,
   a_values |-> <<>>, b_values |-> <<>>, i |-> 0, j |-> 0, it |-> 0,
   x |-> [lo |-> 0, hi |-> 0, n |-> 0], y |-> [lo |-> 0, hi |-> 0, n |-> 0],
   surf |-> <<>>, eq_title |-> "",
   x_points |-> <<>>, pts |-> <<>>, P |-> <<>>, Q |-> <<>>]

NoFig == [axes |-> <<>>, laidOut |-> FALSE, shown |-> FALSE]

NewAxes ==
  [title |-> "", xlabel |-> "", ylabel |-> "",
   contours |-> <<>>, artists |-> <<>>, decor |-> <<>>]

\* f extended or overwritten at key k
Put(f, k, v) == [q \in DOMAIN f \cup {k} |-> IF q = k THEN v ELSE f[q]]

\* sy * y^py + s3 * (x^3 + x*a + b) at x = X/D, y = Y/D, times cD * D^3,
\* for the array expression d = [sy, py, s3, a, b, cD] (a and b over cD)
ResidualAt(d, D, X, Y) ==
  d.sy * d.cD * (IF d.py = 2 THEN D * Y * Y ELSE D * D * Y)
    + d.s3 * (d.cD * X * X * X + d.a * D * D * X + d.b * D * D * D)

\* a coordinate vector of np.ogrid: n samples from lo to hi, kept as its
\* three parameters; element k (from 0) is a numerator over n - 1
Size(v) == v.n

Elem(v, k) == linspace(v.lo, v.hi, v.n, k)

\* the value stored in cell (r, c) of the array z, times cD * (N-1)^3: y is
\* the column vector and x the row vector of np.ogrid, so broadcasting makes
\* the row index select y and the column index select x
SurfaceAt(z, r, c) ==
  ResidualAt(z, Size(z.x) - 1, Elem(z.x, c), Elem(z.y, r))

Rows(z) == Size(z.y)

Cols(z) == Size(z.x)

\* contour(x, y, z, [0]) finds a segment iff two neighbouring samples of z
\* do not lie strictly on the same side of 0 (the rows are visited from the
\* middle one on, where the curves of these scripts cross first)
ContourNonEmpty(z) ==
  \E k \in 0..(Rows(z) - 1) :
    \E c \in 0..(Cols(z) - 1) :
       LET r == (k + Rows(z) \div 2) % Rows(z)
           v == Sg(SurfaceAt(z, r, c))
       IN \/ c + 1 < Cols(z) /\ v * Sg(SurfaceAt(z, r, c + 1)) <= 0
          \/ r + 1 < Rows(z) /\ v * Sg(SurfaceAt(z, r + 1, c)) <= 0

\* ogrid with the two slices in the other order
Ogrid_swapped(e) ==
  [e EXCEPT !.y = [lo |-> -e.x_max, hi |-> e.x_max, n |-> N],
            !.x = [lo |-> -e.y_max, hi |-> e.y_max, n |-> N]]

\* y, x = np.ogrid[-y_max:y_max:100j, -x_max:x_max:100j]
Ogrid(e) ==
  [e EXCEPT !.y = [lo |-> -e.y_max, hi |-> e.y_max, n |-> N],
            !.x = [lo |-> -e.x_max, hi |-> e.x_max, n |-> N]]

\* var = sy * pow(y, py) + s3 * (pow(x, 3) + x * a + b): the array is
\* computed from the values x, y, a and b have at the assignment
BindSurface(e, var, sy, py, s3) ==
  [e EXCEPT !.surf = Put(e.surf, var,
      [sy |-> sy, py |-> py, s3 |-> s3, a |-> e.a, b |-> e.b, cD |-> e.cD,
       x |-> e.x, y |-> e.y])]

\* ax.contour(x.ravel(), y.ravel(), var, [0]): the contour set is kept as
\* the data it is extracted from
DrawContour(axs, e, var) ==
  [axs EXCEPT !.contours = Append(@,
      [var |-> var, x |-> e.x, y |-> e.y, z |-> e.surf[var]])]

\* f'{lhs}{f"{aPre}{a}x" if a != 0 else ""} {f"{bPre}{b}" if b != 0 else ""}'
EqTitle(lhs, aPre, bPre, a, b) ==
  lhs \o (IF a # 0 THEN aPre \o ToString(a) \o "x" ELSE "")
      \o " " \o (IF b # 0 THEN bPre \o ToString(b) ELSE "")

\* a run's event: the statement executed and, for savefig, its path
Ev(op, l, arg) == [op |-> op, l |-> l, arg |-> arg]

\* the common part of every step of script s: its new environment and
\* figure, the event, and whether the statement is finished
Step(s, e, f, arg, finished) ==
  /\ env' = [env EXCEPT ![s] = e]
  /\ fig' = [fig EXCEPT ![s] = f]
  /\ hist' = [hist EXCEPT ![s] = Append(@, Ev(Stmt(s).op, Stmt(s).l, arg))]
  /\ pc' = [pc EXCEPT ![s] = IF finished THEN @ + 1 ELSE @]
  /\ UNCHANGED cfg

OnAxes(s, ax, axs) == [fig[s] EXCEPT !.axes[ax] = axs]

----------------------------------------------------------------------------
(* Actions: one per kind of statement *)

\* `python scripts/<s>.py`, while fewer than limit scripts are running
Launch(s, limit) ==
  /\ pc[s] = 0
  /\ Cardinality({t \in Scripts : Running(t)}) < limit
  /\ pc' = [pc EXCEPT ![s] = 1]
  /\ UNCHANGED <<cfg, env, fig, hist, fs>>

\* a = ..; b = ..; y_max = ..; x_max = ..   (grid: a_values, b_values)
Consts(s) ==
  /\ At(s, "consts")
  /\ LET st == Stmt(s)
         e0 == [env[s] EXCEPT !.x_max = st.x_max, !.y_max = st.y_max]
         e1 == IF s = GRID
               THEN [e0 EXCEPT
                       !.a_values = [k \in 1..4 |-> linspace(-2, 1, 4, k - 1)],
                       !.b_values = [k \in 1..4 |-> linspace(-1, 2, 4, k - 1)],
                       !.cD = 3]
               ELSE [e0 EXCEPT !.a = cfg[s].a, !.b = cfg[s].b]
     IN Step(s, e1, fig[s], "", TRUE)
  /\ UNCHANGED fs

\* fig, axes = plt.subplots(...)
Subplots(s) ==
  /\ At(s, "subplots")
  /\ Step(s, env[s], [fig[s] EXCEPT !.axes = [ax \in Stmt(s).axes |-> NewAxes]],
          "", TRUE)
  /\ UNCHANGED fs

OgridStmt(s) ==
  /\ At(s, "ogrid")
  /\ Step(s, Ogrid(env[s]), fig[s], "", TRUE)
  /\ UNCHANGED fs

Surface(s) ==
  /\ At(s, "surface")
  /\ LET st == Stmt(s)
     IN Step(s, BindSurface(env[s], st.var, st.sy, st.py, st.s3), fig[s], "", TRUE)
  /\ UNCHANGED fs

Contour(s) ==
  /\ At(s, "contour")
  /\ LET st == Stmt(s)
     IN Step(s, env[s],
             OnAxes(s, st.ax, DrawContour(fig[s].axes[st.ax], env[s], st.var)),
             "", TRUE)
  /\ UNCHANGED fs

EqTitleStmt(s) ==
  /\ At(s, "eq_title")
  /\ LET st == Stmt(s)
     IN Step(s, [env[s] EXCEPT !.eq_title =
                   EqTitle(st.lhs, st.aPre, st.bPre, env[s].a, env[s].b)],
             fig[s], "", TRUE)
  /\ UNCHANGED fs

\* ax.set_title(f'${eq_title}$'), or ax.set_title('<literal>')
SetTitle(s) ==
  /\ At(s, "set_title")
  /\ LET st == Stmt(s)
         t == IF st.lit = "" THEN "$" \o env[s].eq_title \o "$" ELSE st.lit
     IN Step(s, env[s],
             OnAxes(s, st.ax, [fig[s].axes[st.ax] EXCEPT !.title = t]), "", TRUE)
  /\ UNCHANGED fs

SetLabel(s) ==
  /\ At(s, "set_label")
  /\ LET st == Stmt(s)
         axs == fig[s].axes[st.ax]
     IN Step(s, env[s],
             OnAxes(s, st.ax,
                    IF st.which = "xlabel" THEN [axs EXCEPT !.xlabel = st.text]
                                           ELSE [axs EXCEPT !.ylabel = st.text]),
             "", TRUE)
  /\ UNCHANGED fs

\* set_ylim, axhline, axvline, grid, legend
Decorate(s) ==
  /\ At(s, "decorate")
  /\ LET st == Stmt(s)
     IN Step(s, env[s],
             OnAxes(s, st.ax, [fig[s].axes[st.ax] EXCEPT !.decor = Append(@, st.what)]),
             "", TRUE)
  /\ UNCHANGED fs

\* x_points = np.arange(-1.6, 2, 0.5)
XPoints(s) ==
  /\ At(s, "x_points")
  /\ LET st == Stmt(s)
     IN Step(s, [env[s] EXCEPT !.x_points = arange(st.start, st.stop, st.step)],
             fig[s], "", TRUE)
  /\ UNCHANGED fs

\* the unhandled exception a statement ends the script with
Raise(s) ==
  /\ pc' = [pc EXCEPT ![s] = -1]
  /\ hist' = [hist EXCEPT ![s] = Append(@, Ev("raise", Stmt(s).l, ""))]
  /\ UNCHANGED <<cfg, env, fig>>

\* np.sqrt(...) raises only if the error state says so
SqrtRaises(rads) ==
  np_errstate_invalid = "raise" /\ \E r \in rads : r < 0

\* var = sign * (x_points**3 + a*x_points + b), or np.sqrt of it
PointsValue(st, x, a, b) ==
  IF st.sqrt THEN np_sqrt(Radicand(x, a, b))
             ELSE Num(st.sign * Radicand(x, a, b))

Points(s) ==
  /\ At(s, "points")
  /\ LET st == Stmt(s)
         e == env[s]
         xs == e.x_points
     IN IF st.sqrt /\ SqrtRaises({Radicand(xs[k], e.a, e.b) : k \in DOMAIN xs})
        THEN Raise(s)
        ELSE Step(s, [e EXCEPT !.pts = Put(e.pts, st.var,
                        [k \in DOMAIN xs |-> PointsValue(st, xs[k], e.a, e.b)])],
                  fig[s], "", TRUE)
  /\ UNCHANGED fs

\* the loop body with the minus sign of line 41 forgotten
AnnotateBody_unreflected(axs, e, i) ==
  LET x == Num(e.x_points[i + 1] * 100)
  IN [axs EXCEPT !.artists = @ \o
       << [kind |-> "annotate",
           xy |-> <<x, e.pts["elliptic_curve_points"][i + 1]>>,
           xytext |-> <<x, e.pts["cubic_curve_neg_points"][i + 1]>>],
          [kind |-> "annotate",
           xy |-> <<x, e.pts["elliptic_curve_points"][i + 1]>>,
           xytext |-> <<x, e.pts["cubic_curve_points"][i + 1]>>] >>]

\* the two plt.annotate calls of iteration i (lines 41-44)
AnnotateBody(axs, e, i) ==
  LET x == Num(e.x_points[i + 1] * 100)
  IN [axs EXCEPT !.artists = @ \o
       << [kind |-> "annotate",
           xy |-> <<x, Neg(e.pts["elliptic_curve_points"][i + 1])>>,
           xytext |-> <<x, e.pts["cubic_curve_neg_points"][i + 1]>>],
          [kind |-> "annotate",
           xy |-> <<x, e.pts["elliptic_curve_points"][i + 1]>>,
           xytext |-> <<x, e.pts["cubic_curve_points"][i + 1]>>] >>]

\* for i in range(len(x_points)): one iteration per step
AnnotateLoop(s) ==
  /\ At(s, "annotate_loop")
  /\ LET e == env[s]
         n == Len(e.x_points)
         i == e.it
         last == i + 1 >= n
     IN IF n = 0
        THEN Step(s, e, fig[s], "", TRUE)
        ELSE Step(s, [e EXCEPT !.i = i, !.it = IF last THEN 0 ELSE i + 1],
                  OnAxes(s, "ax1", AnnotateBody(fig[s].axes["ax1"], e, i)),
                  "", last)
  /\ UNCHANGED fs

\* var = (x, np.sqrt(x ** 3 + a * x + b)), x in tenths
PointDef(s) ==
  /\ At(s, "point")
  /\ LET st == Stmt(s)
         e == env[s]
         r == Radicand(st.x, e.a, e.b)
         p == <<Num(st.x * 100), np_sqrt(r)>>
     IN IF SqrtRaises({r})
        THEN Raise(s)
        ELSE Step(s, IF st.var = "P" THEN [e EXCEPT !.P = p] ELSE [e EXCEPT !.Q = p],
                  fig[s], "", TRUE)
  /\ UNCHANGED fs

PyVar(e, var) == IF var = "P" THEN e.P ELSE e.Q

\* ax1.plot(P[0], P[1], 'ro', label='P')
PlotPoint(s) ==
  /\ At(s, "plot_point")
  /\ LET st == Stmt(s)
         p == PyVar(env[s], st.var)
     IN Step(s, env[s],
             OnAxes(s, st.ax, [fig[s].axes[st.ax] EXCEPT !.artists =
                Append(@, [kind |-> "plot", xy |-> p, xytext |-> p])]),
             "", TRUE)
  /\ UNCHANGED fs

\* ax1.plot([P[0], Q[0]], [P[1], Q[1]], 'k--')
PlotLine(s) ==
  /\ At(s, "plot_line")
  /\ LET st == Stmt(s)
     IN Step(s, env[s],
             OnAxes(s, st.ax, [fig[s].axes[st.ax] EXCEPT !.artists =
                Append(@, [kind |-> "line", xy |-> PyVar(env[s], st.from),
                           xytext |-> PyVar(env[s], st.to)])]),
             "", TRUE)
  /\ UNCHANGED fs

\* the loop variables with the two indices exchanged when reading a and b
LoopVars_swapped(e, it) ==
  LET i == it \div Len(e.b_values)
      j == it % Len(e.b_values)
  IN [e EXCEPT !.i = i, !.j = j, !.a = e.a_values[j + 1], !.b = e.b_values[i + 1]]

\* the loop variables of iteration it of
\*   for i, a in enumerate(a_values): for j, b in enumerate(b_values):
LoopVars(e, it) ==
  LET i == it \div Len(e.b_values)
      j == it % Len(e.b_values)
  IN [e EXCEPT !.i = i, !.j = j, !.a = e.a_values[i + 1], !.b = e.b_values[j + 1]]

\* lines 18-21: the column title on row 0, the row label on column 0
LabelBody(axs, e) ==
  LET t == IF e.i = 0 THEN [axs EXCEPT !.title = "b=" \o Fmt0f(e.b, e.cD)] ELSE axs
  IN IF e.j = 0 THEN [t EXCEPT !.ylabel = "a=" \o Fmt0f(e.a, e.cD)] ELSE t

LabelLoop(s) ==
  /\ At(s, "label_loop")
  /\ LET e == LoopVars(env[s], env[s].it)
         last == env[s].it + 1 >= Len(e.a_values) * Len(e.b_values)
     IN Step(s, [e EXCEPT !.it = IF last THEN 0 ELSE @ + 1],
             OnAxes(s, <<e.i, e.j>>, LabelBody(fig[s].axes[<<e.i, e.j>>], e)),
             "", last)
  /\ UNCHANGED fs

\* lines 26-29: ogrid, curve, contour and grid of one subplot
PlotBody(axs, e) ==
  LET e1 == BindSurface(Ogrid(e), "curve", 1, 2, -1)
  IN [DrawContour(axs, e1, "curve") EXCEPT !.decor = Append(@, "grid")]

PlotLoop(s) ==
  /\ At(s, "plot_loop")
  /\ LET e == LoopVars(env[s], env[s].it)
         e1 == BindSurface(Ogrid(e), "curve", 1, 2, -1)
         last == env[s].it + 1 >= Len(e.a_values) * Len(e.b_values)
     IN Step(s, [e1 EXCEPT !.it = IF last THEN 0 ELSE @ + 1],
             OnAxes(s, <<e.i, e.j>>, PlotBody(fig[s].axes[<<e.i, e.j>>], e)),
             "", last)
  /\ UNCHANGED fs

TightLayout(s) ==
  /\ At(s, "tight_layout")
  /\ Step(s, env[s], [fig[s] EXCEPT !.laidOut = TRUE], "", TRUE)
  /\ UNCHANGED fs

\* plt.savefig(path): the file is created or overwritten with the figure
SaveFig(s) ==
  /\ At(s, "savefig")
  /\ LET path == Stmt(s).path
     IN /\ fs' = Put(fs, path,
                     [by |-> s, image |-> fig[s],
                      writers |-> IF path \in DOMAIN fs
                                  THEN fs[path].writers \cup {s} ELSE {s}])
        /\ Step(s, env[s], fig[s], path, TRUE)

\* plt.show(): the window is shown; the script ends when it is closed
Show(s) ==
  /\ At(s, "show")
  /\ Step(s, env[s], [fig[s] EXCEPT !.shown = TRUE], "", TRUE)
  /\ UNCHANGED fs

----------------------------------------------------------------------------
(* Specifications *)

Start ==
  /\ pc = [s \in Scripts |-> 0]
  /\ env = [s \in Scripts |-> NoEnv]
  /\ fig = [s \in Scripts |-> NoFig]
  /\ hist = [s \in Scripts |-> <<>>]
  /\ fs = <<>>

\* the scripts as they are in the repository
Init ==
  /\ cfg = [s \in CoefScripts |-> Literals(s)]
  /\ Start

\* the scripts with the literals a and b edited
CoefRange == (-MaxCoef)..MaxCoef

InitAny ==
  /\ \E a \in CoefRange, b \in CoefRange \cup {7} :
        cfg = [s \in CoefScripts |-> [a |-> a, b |-> b]]
  /\ Start

Exec(s) ==
  \/ Consts(s)
  \/ Subplots(s)
  \/ OgridStmt(s)
  \/ Surface(s)
  \/ Contour(s)
  \/ EqTitleStmt(s)
  \/ SetTitle(s)
  \/ SetLabel(s)
  \/ Decorate(s)
  \/ XPoints(s)
  \/ Points(s)
  \/ AnnotateLoop(s)
  \/ PointDef(s)
  \/ PlotPoint(s)
  \/ PlotLine(s)
  \/ LabelLoop(s)
  \/ PlotLoop(s)
  \/ TightLayout(s)
  \/ SaveFig(s)
  \/ Show(s)

\* one script at a time
Next == \E s \in Scripts : Launch(s, 1) \/ Exec(s)

\* up to MaxPar scripts at a time, their statements interleaved
NextPar == \E s \in Scripts : Launch(s, MaxPar) \/ Exec(s)

Spec == Init /\ [][Next]_vars

SpecPar == Init /\ [][NextPar]_vars

SpecAny == InitAny /\ [][Next]_vars

----------------------------------------------------------------------------
(* Reading the state *)

\* the contour sets drawn so far on the axes ax of script s
ContoursOn(s, ax) == fig[s].axes[ax].contours

AxesOf(s) == DOMAIN fig[s].axes

\* the paths script s has written in this run, in order
RECURSIVE SavedPaths(_)
SavedPaths(h) ==
  IF h = <<>> THEN <<>>
  ELSE (IF Head(h).op = "savefig" THEN <<Head(h).arg>> ELSE <<>>) \o SavedPaths(Tail(h))

\* statements that draw on the figure or lay it out
DrawOps ==
  {"contour", "set_title", "set_label", "decorate", "annotate_loop",
   "plot_point", "plot_line", "label_loop", "plot_loop", "tight_layout"}

IsElliptic(z) == z.py = 2 /\ z.sy = 1 /\ z.s3 = -1

\* 4a^3 + 27b^2 for a = z.a / z.cD and b = z.b / z.cD, times cD^3
Discriminant(z) == 4 * z.a * z.a * z.a + 27 * z.b * z.b * z.cD

Suffix(str, n) == SubSeq(str, Len(str) - n + 1, Len(str))

Stem(path) == SubSeq(path, 1, Len(path) - 4)

UnderImages(path) == Len(path) > 16 /\ SubSeq(path, 1, 12) = "docs/images/"

----------------------------------------------------------------------------
(* C1 *)

\* C1 (as claimed): every script that has run to completion has written
\* exactly two files for its figure, <base>.png and <base>.svg with the same
\* base name under docs/images/.
C1_TwoFilesWritten ==
  \A s \in Scripts :
    Exited(s) =>
      LET w == SavedPaths(hist[s])
      IN /\ Len(w) = 2
         /\ Suffix(w[1], 4) = ".png" /\ Suffix(w[2], 4) = ".svg"
         /\ Stem(w[1]) = Stem(w[2])
         /\ UnderImages(w[1]) /\ UnderImages(w[2])
         /\ {w[1], w[2]} \subseteq DOMAIN fs

----------------------------------------------------------------------------
(* C2 *)

\* the number of savefig events among the first k events of h
SavesBefore(h, k) == Len(SavedPaths(SubSeq(h, 1, k - 1)))

\* every drawing statement of the program of s has an event among the
\* first k - 1 events of its run
AllDrawnBefore(s, k) ==
  \A i \in DOMAIN Program(s) :
    Program(s)[i].op \in DrawOps =>
      \E j \in 1..(k - 1) : hist[s][j].l = Program(s)[i].l

\* the order of a run: all drawing, then the saves, then show
RunOrdered(s) ==
  \A k \in DOMAIN hist[s] :
    LET ev == hist[s][k]
    IN /\ ev.op = "savefig" => AllDrawnBefore(s, k)
       /\ ev.op \in DrawOps => SavesBefore(hist[s], k) = 0
       /\ ev.op = "show" => \A j \in DOMAIN hist[s] : j > k => hist[s][j].op = "show"

\* C2 (as claimed): in every run plt.show happens only after both output
\* files have been written, both writes happen only after every drawing step
\* (contours, annotations, labels, titles, tight_layout), and no drawing step
\* follows a save.
C2_ShowAfterSavesAfterDrawing ==
  \A s \in Scripts :
    /\ RunOrdered(s)
    /\ \A k \in DOMAIN hist[s] :
         hist[s][k].op = "show" => SavesBefore(hist[s], k) = 2

----------------------------------------------------------------------------
(* C3 *)

Digits == {"0", "1", "2", "3", "4", "5", "6", "7", "8", "9"}

DigitVal(ch) ==
  CASE ch = "0" -> 0 [] ch = "1" -> 1 [] ch = "2" -> 2 [] ch = "3" -> 3
    [] ch = "4" -> 4 [] ch = "5" -> 5 [] ch = "6" -> 6 [] ch = "7" -> 7
    [] ch = "8" -> 8 [] ch = "9" -> 9

Char(str, i) == SubSeq(str, i, i)

From(str, i) == SubSeq(str, i, Len(str))

IsNat(str) == Len(str) > 0 /\ \A i \in 1..Len(str) : Char(str, i) \in Digits

RECURSIVE ReadNat(_, _)
\* the number the digits of str denote, after the digits read so far
ReadNat(str, acc) ==
  IF str = "" THEN acc
  ELSE ReadNat(From(str, 2), 10 * acc + DigitVal(Char(str, 1)))

\* a decimal integer with an optional leading minus sign
IsInt(str) == IsNat(str) \/ (Len(str) > 1 /\ Char(str, 1) = "-" /\ IsNat(From(str, 2)))

ReadInt(str) ==
  IF Char(str, 1) = "-" THEN -ReadNat(From(str, 2), 0) ELSE ReadNat(str, 0)

RECURSIVE WordLen(_)
\* the number of characters of str before its first space
WordLen(str) ==
  IF str = "" \/ Char(str, 1) = " " THEN 0 ELSE 1 + WordLen(From(str, 2))

RECURSIVE Words(_)
\* the words of str, separated by spaces
Words(str) ==
  IF str = "" THEN <<>>
  ELSE IF Char(str, 1) = " " THEN Words(From(str, 2))
  ELSE <<SubSeq(str, 1, WordLen(str))>> \o Words(From(str, WordLen(str) + 1))

NoTerms == [ok |-> TRUE, a |-> 0, b |-> 0, hasA |-> FALSE, hasB |-> FALSE]

RECURSIVE ReadTerms(_, _, _)
\* the terms written after "x^3": each is an operator (+ or -) followed by
\* <int>x or <int>; a term written without an operator is read only if it
\* carries its own sign ("-2x"); op is the operator read and not yet used
ReadTerms(ws, op, acc) ==
  IF ws = <<>> THEN [acc EXCEPT !.ok = acc.ok /\ op = 0]
  ELSE LET w == Head(ws)
           isX == Suffix(w, 1) = "x"
           num == IF isX THEN SubSeq(w, 1, Len(w) - 1) ELSE w
       IN IF w = "-" \/ w = "+"
          THEN IF op # 0 THEN [acc EXCEPT !.ok = FALSE]
               ELSE ReadTerms(Tail(ws), IF w = "-" THEN -1 ELSE 1, acc)
          ELSE IF ~IsInt(num) \/ (op = 0 /\ Char(num, 1) # "-")
                  \/ (isX /\ acc.hasA) \/ (~isX /\ acc.hasB)
               THEN [acc EXCEPT !.ok = FALSE]
               ELSE LET v == (IF op = 0 THEN 1 ELSE op) * ReadInt(num)
                    IN ReadTerms(Tail(ws), 0,
                         IF isX THEN [acc EXCEPT !.a = v, !.hasA = TRUE]
                                ELSE [acc EXCEPT !.b = v, !.hasB = TRUE])

EllipticLhs == "$y^2 = x^3 "

\* an axes title that shows an equation of an elliptic curve
IsEllipticTitle(t) ==
  Len(t) > Len(EllipticLhs) /\ SubSeq(t, 1, Len(EllipticLhs)) = EllipticLhs
    /\ Suffix(t, 1) = "$"

\* the curve y^2 = x^3 + a*x + b the title t denotes
TitleCurve(t) ==
  ReadTerms(Words(SubSeq(t, Len(EllipticLhs) + 1, Len(t) - 1)), 0, NoTerms)

\* C3 (as claimed): the equation in the final title of an elliptic-curve plot
\* denotes the curve whose residual is contoured on that axes,
\* y^2 = x^3 + a*x + b with the script's a and b, and a term whose
\* coefficient is 0 is omitted from the title.
C3_TitleDenotesPlottedCurve ==
  \A s \in CoefScripts :
    Exited(s) =>
      \A ax \in AxesOf(s) :
        LET t == fig[s].axes[ax].title
            cs == ContoursOn(s, ax)
        IN IsEllipticTitle(t) =>
             /\ TitleCurve(t).ok
             /\ \A k \in DOMAIN cs :
                  IsElliptic(cs[k].z) =>
                    TitleCurve(t).a = cs[k].z.a /\ TitleCurve(t).b = cs[k].z.b
             /\ TitleCurve(t).hasA <=> env[s].a # 0
             /\ TitleCurve(t).hasB <=> env[s].b # 0

----------------------------------------------------------------------------
(* C4 *)

\* the contour sets of elliptic residuals with non-zero discriminant
SmoothContours(s) ==
  {ct \in UNION {{ContoursOn(s, ax)[k] : k \in DOMAIN ContoursOn(s, ax)} : ax \in AxesOf(s)} :
     IsElliptic(ct.z) /\ Discriminant(ct.z) # 0}

\* C4: for every coefficient pair with 4a^3 + 27b^2 # 0 that a script plots,
\* the elliptic residual sampled on the script's grid changes sign between
\* (or is zero at) two adjacent cells, so the contour drawn is non-empty.
C4_SmoothContourNonEmpty ==
  \A s \in Scripts : \A ct \in SmoothContours(s) : ContourNonEmpty(ct.z)

\* all four scripts have finished: (0,7) twice, (-2,2) and the 15 smooth
\* pairs of the 4x4 grid have been contoured
C4_Witness ==
  /\ \A s \in Scripts : Exited(s)
  /\ Cardinality(SmoothContours(GRID)) = 15
  /\ \A s \in CoefScripts : Cardinality(SmoothContours(s)) = 1

----------------------------------------------------------------------------
(* C8 *)

\* the constants x_max and y_max of script s (its first statement)
Bounds(s) == Program(s)[1]

\* the integer coefficients in force in script s: its literals, or the
\* values -2 + i and -1 + j of the grid's loop variables
CoefInForce(s) ==
  IF s = GRID THEN [a |-> -2 + env[s].i, b |-> -1 + env[s].j] ELSE cfg[s]

\* v holds n evenly spaced samples from -bound to +bound, both included
\* (numerators over n - 1)
SamplesAxis(v, bound, n) ==
  /\ Size(v) = n
  /\ Elem(v, 0) = -bound * (n - 1)
  /\ Elem(v, n - 1) = bound * (n - 1)
  /\ \A k \in 0..(n - 2) : Elem(v, k + 1) - Elem(v, k) = Elem(v, 1) - Elem(v, 0)
  /\ Elem(v, 1) > Elem(v, 0)

\* y_r^2 - x_c^3 - a*x_c - b at x_c = -xm + c*2*xm/(n-1) and
\* y_r = -ym + r*2*ym/(n-1), times cD * (n-1)^3
EllipticAt(xm, ym, a, b, n, cD, r, c) ==
  LET D == n - 1
      X == -xm * D + c * 2 * xm
      Y == -ym * D + r * 2 * ym
  IN cD * (D * Y * Y - X * X * X - a * D * D * X - b * D * D * D)

\* script s has just computed a residual array
JustBound(s) ==
  /\ hist[s] # <<>>
  /\ hist[s][Len(hist[s])].op \in {"surface", "plot_loop"}

\* C8: each axis is sampled with exactly 100 evenly spaced coordinates from
\* -bound to +bound (x over x_max, y over y_max, ends included); a residual
\* array has 100 x 100 cells, and cell (r, c) of the elliptic residual holds
\* y_r^2 - x_c^3 - a*x_c - b.
C8_GridSampling ==
  \A s \in Scripts :
    /\ \A ax \in AxesOf(s) : \A k \in DOMAIN ContoursOn(s, ax) :
         LET ct == ContoursOn(s, ax)[k]
         IN /\ SamplesAxis(ct.x, Bounds(s).x_max, 100)
            /\ SamplesAxis(ct.y, Bounds(s).y_max, 100)
            /\ Rows(ct.z) = 100 /\ Cols(ct.z) = 100
            /\ ct.z.x = ct.x /\ ct.z.y = ct.y
    /\ JustBound(s) =>
         \A var \in DOMAIN env[s].surf :
            LET z == env[s].surf[var]
            IN /\ Rows(z) = 100 /\ Cols(z) = 100
               /\ IsElliptic(z) =>
                    \A r \in 0..99, c \in 0..99 :
                       SurfaceAt(z, r, c) =
                         EllipticAt(Bounds(s).x_max, Bounds(s).y_max,
                                    CoefInForce(s).a, CoefInForce(s).b,
                                    100, z.cD, r, c)

\* an elliptic residual has just been computed and every script has drawn
\* a contour
C8_Witness ==
  /\ \E s \in Scripts : JustBound(s) /\ \E var \in DOMAIN env[s].surf : IsElliptic(env[s].surf[var])
  /\ \A s \in Scripts \ {GRID} : \E ax \in AxesOf(s) : ContoursOn(s, ax) # <<>>
  /\ JustBound(GRID) /\ env[GRID].i = 3 /\ env[GRID].j = 3

----------------------------------------------------------------------------
(* C9 *)

\* C9: once both loops of plot-elliptic-curve-grid have finished, every
\* subplot (i, j) holds exactly one contour, computed with a = -2 + i and
\* b = -1 + j; the title 'b=..' is set only on row 0 and shows -1 + j, the
\* label 'a=..' only on column 0 and shows -2 + i, and each label agrees
\* with the coefficients of every subplot of its column or row.
C9_GridOfSubplots ==
  (pc[GRID] > 4 /\ ~Crashed(GRID)) =>
    /\ AxesOf(GRID) = (0..3) \X (0..3)
    /\ \A i \in 0..3, j \in 0..3 :
         LET axs == fig[GRID].axes[<<i, j>>]
         IN /\ Len(axs.contours) = 1
            /\ IsElliptic(axs.contours[1].z)
            /\ axs.contours[1].z.a = (-2 + i) * axs.contours[1].z.cD
            /\ axs.contours[1].z.b = (-1 + j) * axs.contours[1].z.cD
            /\ axs.title = (IF i = 0 THEN "b=" \o ToString(-1 + j) ELSE "")
            /\ axs.ylabel = (IF j = 0 THEN "a=" \o ToString(-2 + i) ELSE "")
            /\ fig[GRID].axes[<<0, j>>].title
                 = "b=" \o ToString(axs.contours[1].z.b \div axs.contours[1].z.cD)
            /\ fig[GRID].axes[<<i, 0>>].ylabel
                 = "a=" \o ToString(axs.contours[1].z.a \div axs.contours[1].z.cD)

\* the grid script has run to completion
C9_Witness ==
  /\ Exited(GRID)
  /\ Len(fig[GRID].axes[<<3, 3>>].contours) = 1
  /\ fig[GRID].axes[<<0, 3>>].title = "b=2"

----------------------------------------------------------------------------
(* Markers: C5, C6, C10 *)

\* the artists drawn so far on ax1 of script s
Artists(s) == IF "ax1" \in AxesOf(s) THEN fig[s].axes["ax1"].artists ELSE <<>>

\* the radicand x^3 + a*x + b (thousandths) at the x of the point pt
RadicandOf(s, pt) == Radicand(pt[1].v \div 100, cfg[s].a, cfg[s].b)

\* equality of floating-point values: NaN equals nothing
FloatEq(f, g) == ~f.nan /\ ~g.nan /\ f.v = g.v

\* f is the square root of r thousandths, rounded to the nearest thousandth
RoundedRoot(f, r) == ~f.nan /\ f.v >= 0 /\ Abs(f.v * f.v - r * M) <= f.v

\* the point pt lies inside the sampled domain of script s
InDomain(s, pt) ==
  /\ ~pt[1].nan /\ Abs(pt[1].v) <= Bounds(s).x_max * M
  /\ ~pt[2].nan /\ Abs(pt[2].v) <= Bounds(s).y_max * M

\* the markers placed by script s: the arrow heads of cubic-to-elliptic-curve
\* and the points P and Q of point-addition
Markers(s) ==
  {Artists(s)[k].xy : k \in {i \in DOMAIN Artists(s) : Artists(s)[i].kind \in {"annotate", "plot"}}}

\* every point handed to a plotting call of script s
PlottedPoints(s) ==
  UNION {{Artists(s)[k].xy, Artists(s)[k].xytext} : k \in DOMAIN Artists(s)}

\* C5: for every marker x with x^3 + a*x + b >= 0 the point placed on the
\* negative branch is the reflection across y = 0 of the point placed on the
\* positive branch (same x, exactly negated y), and the start of the
\* negative-branch arrow is the reflection of the start of the positive one.
C5_BranchesAreReflections ==
  \A k \in DOMAIN Artists(C2E) :
    (k % 2 = 1 /\ k + 1 \in DOMAIN Artists(C2E)) =>
      LET neg == Artists(C2E)[k]
          pos == Artists(C2E)[k + 1]
      IN RadicandOf(C2E, pos.xy) >= 0 =>
           /\ FloatEq(neg.xy[1], pos.xy[1])
           /\ FloatEq(neg.xy[2], Neg(pos.xy[2]))
           /\ pos.xy[2].v >= 0
           /\ FloatEq(neg.xytext[1], pos.xytext[1])
           /\ FloatEq(neg.xytext[2], Neg(pos.xytext[2]))
           /\ pos.xytext[2].v = RadicandOf(C2E, pos.xy)

\* the loop has placed a pair with y # 0, and a pair whose radicand is
\* negative (which the claim does not cover)
C5_Witness ==
  /\ pc[C2E] > 16
  /\ Len(Artists(C2E)) = 16
  /\ \E k \in DOMAIN Artists(C2E) : ~Artists(C2E)[k].xy[2].nan /\ Artists(C2E)[k].xy[2].v > 0
  /\ \E k \in DOMAIN Artists(C2E) : RadicandOf(C2E, Artists(C2E)[k].xy) < 0

\* the statements of s executed so far are exactly the first ones of its
\* program, each once and each loop once per iteration, in program order
RanInOrder(s) ==
  /\ \A k \in 1..(Len(hist[s]) - 1) : hist[s][k].l <= hist[s][k + 1].l
  /\ \A i \in DOMAIN Program(s) :
       i < pc[s] => \E k \in DOMAIN hist[s] : hist[s][k].l = Program(s)[i].l

\* what happens to the markers of s: a marker x with x^3 + a*x + b < 0 gets
\* NaN as its y, and only that marker does; the script neither raises nor
\* filters the point: the NaN is handed to the plotting call, every other
\* marker keeps its valid value, and the script goes on through all its
\* remaining statements to plt.show
NaNPropagates(s) ==
  /\ ~Crashed(s)
  /\ \A pt \in Markers(s) :
       IF RadicandOf(s, pt) < 0 THEN pt[2].nan
       ELSE RoundedRoot(IF pt[2].v < 0 THEN Neg(pt[2]) ELSE pt[2], RadicandOf(s, pt))
  /\ (s = C2E /\ pc[s] > 16) => Len(Artists(s)) = 2 * Len(env[s].x_points)
  /\ (s = C2E /\ pc[s] > 16) =>
        \A i \in DOMAIN env[s].x_points :
           Artists(s)[2 * i].xy = <<Num(env[s].x_points[i] * 100),
                                    env[s].pts["elliptic_curve_points"][i]>>
  /\ (s = PADD /\ pc[s] > 17) =>
        /\ Len(Artists(s)) = 3
        /\ Artists(s)[1].xy = env[s].P /\ Artists(s)[2].xy = env[s].Q
        /\ Artists(s)[3].xy = env[s].P /\ Artists(s)[3].xytext = env[s].Q
  /\ Running(s) => ENABLED Exec(s)
  /\ RanInOrder(s)
  /\ Exited(s) => /\ fig[s].shown
                  /\ Len(hist[s]) >= Len(Program(s))
                  /\ hist[s][Len(hist[s])].op = "show"

\* s has reached its end with a NaN marker and a valid marker on its figure
EndedWithNaNMarker(s) ==
  /\ Exited(s)
  /\ \E pt \in Markers(s) : pt[2].nan /\ RadicandOf(s, pt) < 0
  /\ \E pt \in Markers(s) : ~pt[2].nan /\ pt[2].v > 0

\* C6: for any marker x with x^3 + a*x + b < 0 the explicit form yields NaN
\* for that marker only; the script neither raises nor filters the point,
\* the NaN is passed on to the plotting call, every other marker keeps its
\* valid value, and the script still proceeds through all remaining steps to
\* the save steps and the display step.
C6_NaNPropagatesSilently ==
  \A s \in {C2E, PADD} :
    /\ NaNPropagates(s)
    /\ EndedWithNaNMarker(s) =>
         \E i, j \in DOMAIN hist[s] :
            /\ i < j /\ hist[s][i].op = "savefig" /\ hist[s][j].op = "savefig"
            /\ hist[s][i].arg \in DOMAIN fs /\ hist[s][j].arg \in DOMAIN fs

\* C6, the part the code keeps: the NaN of a marker is propagated silently
\* and the script runs to plt.show; the script that has save steps reaches
\* them
C6_PropagationHolds ==
  /\ \A s \in {C2E, PADD} : NaNPropagates(s)
  /\ EndedWithNaNMarker(C2E) => Len(SavedPaths(hist[C2E])) = 2

\* C10 (as claimed): with the constants of the scripts, every marker has a
\* radicand >= 0, satisfies y^2 = x^3 + a*x + b, and every marker and arrow
\* end point lies inside |x| <= x_max, |y| <= y_max.
C10_MarkersExactlyOnCurve ==
  \A s \in {C2E, PADD} :
    /\ \A pt \in Markers(s) :
         /\ RadicandOf(s, pt) >= 0
         /\ ~pt[2].nan /\ pt[2].v * pt[2].v = RadicandOf(s, pt) * M
    /\ \A pt \in PlottedPoints(s) : InDomain(s, pt)

\* C10 (amended): with the constants of the scripts, every marker has a
\* radicand >= 0, its y is the square root of x^3 + a*x + b rounded to the
\* precision of the number format (so it lies on the plotted curve up to
\* that rounding), and every marker and arrow end point lies inside
\* |x| <= x_max, |y| <= y_max.
C10_MarkersOnCurve ==
  \A s \in {C2E, PADD} :
    /\ \A pt \in Markers(s) :
         /\ RadicandOf(s, pt) >= 0
         /\ RoundedRoot(IF pt[2].v < 0 THEN Neg(pt[2]) ELSE pt[2], RadicandOf(s, pt))
    /\ \A pt \in PlottedPoints(s) : InDomain(s, pt)

\* all eight arrow pairs and P, Q and the chord have been drawn
C10_Witness ==
  /\ Len(Artists(C2E)) = 16
  /\ Len(Artists(PADD)) = 3
  /\ Cardinality(Markers(C2E)) = 16
  /\ Cardinality(Markers(PADD)) = 2

----------------------------------------------------------------------------
(* C7 *)

NoDuplicates(seq) == \A i, j \in DOMAIN seq : seq[i] = seq[j] => i = j

Range(seq) == {seq[i] : i \in DOMAIN seq}

\* C7: no output path is written by two different scripts, and within one
\* run each output path is written exactly once; so, however the runs of the
\* four scripts are ordered or interleaved, the content of every output file
\* is determined by exactly one script (it is that script's finished figure).
C7_OutputPathsArePrivate ==
  /\ \A s \in Scripts : NoDuplicates(SavedPaths(hist[s]))
  /\ \A s, t \in Scripts :
       s # t => Range(SavedPaths(hist[s])) \cap Range(SavedPaths(hist[t])) = {}
  /\ \A p \in DOMAIN fs :
       /\ fs[p].writers = {fs[p].by}
       /\ p \in Range(SavedPaths(hist[fs[p].by]))
       /\ fs[p].image = [fig[fs[p].by] EXCEPT !.shown = FALSE]

\* two scripts are running at once, each between its two saves, after a
\* third has written both its files
C7_Witness ==
  /\ Cardinality(DOMAIN fs) = 4
  /\ \E s, t \in Scripts :
       /\ s # t /\ Running(s) /\ Running(t)
       /\ Len(SavedPaths(hist[s])) = 1 /\ Len(SavedPaths(hist[t])) = 1

====
